---- MODULE Spec2Model ----
(***************************************************************************)
(* A model of pyxtal/interface/gulp.py: the GULP calculator (write the     *)
(* input deck, execute the program, read its log, clean the files) and the *)
(* two drivers single_optimize() and optimize().                           *)
(*                                                                         *)
(* Text is modelled after split(): a file is a sequence of lines, a line   *)
(* is a sequence of tokens, a token is a sequence of symbols.  A number is *)
(* spelled symbol by symbol ("-", "0", ".", "5"); a word or marker phrase  *)
(* of the log is one opaque symbol.  A float is the pair <<num, k>>, that  *)
(* is num * 10^(-k), kept normalised (k = 0 or num not divisible by 10).   *)
(* As in the repository, a calculator object is constructed, run once,     *)
(* and dropped.                                                            *)
(***************************************************************************)
EXTENDS Integers, Sequences, FiniteSets, TLC

VARIABLES
    pc,          \* control point of the running call
    args,        \* arguments of the entry call
    sargs,       \* arguments single_optimize() / run() received
    calc,        \* the fields of the GULP object
    fs,          \* the file system: path -> content, for the files that exist
    trace,       \* history of the steps run() has performed on the current object
    cmds,        \* history of the commands handed to os.system
    struc,       \* the structure handed from stage to stage
    stage,       \* index of the current optimisation stage
    time_total,  \* optimize(): accumulated cpu time
    sret,        \* optimize(): the tuple the latest single_optimize() returned
    errs,        \* history: calc.error at the end of every run()
    logch,       \* history: the description of the log the executable wrote
    ret,         \* the value returned by the entry call
    row,         \* the derivative row under test (SpecRow)
    parsed       \* what the row parser made of it (SpecRow)

vars == <<pc, args, sargs, calc, fs, trace, cmds, struc, stage, time_total, sret, errs,
          logch, ret, row, parsed>>

\* ---------------------------------------------------------------- bounds
MaxInt == 1      \* largest integer part of a printed number
MaxFrac == 1     \* largest fractional digit of a printed number

\* ---------------------------------------------------------------- numbers
DigitChars == <<"0", "1", "2", "3", "4", "5", "6", "7", "8", "9">>

IsDigit(c) == \E i \in 1..10 : DigitChars[i] = c

DigitVal(c) == (CHOOSE i \in 1..10 : DigitChars[i] = c) - 1

RECURSIVE DigitsVal(_)
DigitsVal(ds) ==
    IF ds = <<>> THEN 0
    ELSE DigitsVal(SubSeq(ds, 1, Len(ds) - 1)) * 10 + DigitVal(ds[Len(ds)])

RECURSIVE Normalize(_, _)
Normalize(num, k) ==
    IF k > 0 /\ num % 10 = 0 THEN Normalize(num \div 10, k - 1) ELSE <<num, k>>

NaN == <<0, -1>>

isnan(v) == v[2] = -1

Neg(v) == IF isnan(v) THEN v ELSE <<-v[1], v[2]>>

\* float(token): [ok |-> FALSE] stands for ValueError
ParseFloat(tok) ==
    LET neg == Len(tok) > 0 /\ tok[1] = "-"
        body == IF neg THEN Tail(tok) ELSE tok
        dots == {i \in 1..Len(body) : body[i] = "."}
        digs == SelectSeq(body, IsDigit)
        k == IF dots = {} THEN 0 ELSE Len(body) - (CHOOSE i \in dots : TRUE)
        wellformed == /\ \A i \in 1..Len(body) : IsDigit(body[i]) \/ body[i] = "."
                      /\ Cardinality(dots) <= 1
                      /\ Len(digs) >= 1
    IN  IF body = <<"n", "a", "n">> THEN [ok |-> TRUE, val |-> NaN]
        ELSE IF wellformed
             THEN [ok |-> TRUE,
                   val |-> Normalize((IF neg THEN -1 ELSE 1) * DigitsVal(digs), k)]
             ELSE [ok |-> FALSE, val |-> NaN]

\* ---------------------------------------------------------------- the derivative row
Min(a, b) == IF a < b THEN a ELSE b

\* lines[s].split()[3:6]
Columns3to6(toks) == SubSeq(toks, 4, Min(6, Len(toks)))

\* for t in range(3-len(g)): g.append(' ')
PadRow(g) == g \o [i \in 1..(3 - Len(g)) |-> <<" ">>]

MinIndexFromStart(t) ==
    SelectSeq([i \in 1..Len(t) |-> i], LAMBDA p : t[p] = "-")

\* [i+1 for i,e in enumerate(g[j][1:]) if e == '-'], as 1-based positions
MinIndex(t) ==
    SelectSeq([i \in 1..Len(t) |-> i], LAMBDA p : p >= 2 /\ t[p] = "-")

From(t, p) == SubSeq(t, p, Len(t))
Upto(t, p) == SubSeq(t, 1, p - 1)

\* the pass j = 0 of the loop over g
SplitFirst(g) ==
    LET mi == MinIndex(g[1])
    IN  IF Len(mi) = 0 THEN g
        ELSE IF Len(mi) = 1
             THEN <<Upto(g[1], mi[1]), From(g[1], mi[1]), g[2]>>
             ELSE <<Upto(g[1], mi[1]),
                    SubSeq(g[1], mi[1], mi[2] - 1),
                    From(g[1], mi[2])>>

\* the pass j = 1 of the loop over g
SplitSecond(g) ==
    LET mi == MinIndex(g[2])
    IN  IF Len(mi) = 0 THEN g
        ELSE <<g[1], Upto(g[2], mi[1]), From(g[2], mi[1])>>

\* for j in range(2): ...  (the pass j = 0 breaks out when it found two signs)
SplitMerged(g) ==
    IF Len(MinIndex(g[1])) >= 2 THEN SplitFirst(g) ELSE SplitSecond(SplitFirst(g))

\* one row of the derivatives table: g, then G = [-float(x) * eV / Ang for x in g]
ForceRow(toks) ==
    LET g == SplitMerged(PadRow(Columns3to6(toks)))
        f == [j \in 1..3 |-> ParseFloat(g[j])]
    IN  IF \A j \in 1..3 : f[j].ok
        THEN [ok |-> TRUE, G |-> [j \in 1..3 |-> Neg(f[j].val)]]
        ELSE [ok |-> FALSE, G |-> <<>>]

\* ---------------------------------------------------------------- printed rows
RECURSIVE FmtNat(_)
FmtNat(n) ==
    IF n < 10 THEN <<DigitChars[n + 1]>>
    ELSE FmtNat(n \div 10) \o <<DigitChars[(n % 10) + 1]>>

\* a number as the program prints it in plain decimal notation
Printed == [neg : BOOLEAN, ip : 0..MaxInt, fp : 0..MaxFrac]

Text(n) == (IF n.neg THEN <<"-">> ELSE <<>>) \o FmtNat(n.ip) \o <<".">> \o FmtNat(n.fp)

ValueOf(n) == Normalize((IF n.neg THEN -1 ELSE 1) * (n.ip * 10 + n.fp), 1)

W(s) == <<s>>

\* the tokens of a derivative row: three leading columns, then the values of
\* vals, a value glued to its predecessor where glue says so, then the radius
RowTokens(vals, glue, radius) ==
    LET RECURSIVE Cols(_)
        Cols(n) ==
            IF n = 0 THEN <<>>
            ELSE IF n > 1 /\ glue[n]
                 THEN LET prev == Cols(n - 1)
                      IN  SubSeq(prev, 1, Len(prev) - 1)
                            \o <<prev[Len(prev)] \o Text(vals[n])>>
                 ELSE Cols(n - 1) \o <<Text(vals[n])>>
    IN  <<W("1"), W("C"), W("c")>> \o Cols(Len(vals))
          \o (IF radius THEN <<Text([neg |-> FALSE, ip |-> 0, fp |-> 0])>> ELSE <<>>)

Rows ==
    {r \in [vals : UNION {[1..n -> Printed] : n \in 0..3},
            glue : [1..3 -> BOOLEAN], radius : BOOLEAN] :
        /\ ~r.glue[1]
        /\ \A n \in 2..3 : r.glue[n] => (n <= Len(r.vals) /\ r.vals[n].neg)
        /\ r.radius => Len(r.vals) = 3}

InitRow ==
    /\ row \in Rows
    /\ parsed = [ok |-> FALSE, G |-> <<>>]
    /\ pc = "row"
    /\ args = <<>> /\ sargs = <<>> /\ calc = <<>> /\ fs = <<>> /\ trace = <<>>
    /\ cmds = <<>> /\ struc = <<>> /\ stage = 0 /\ time_total = <<0, 0>> /\ ret = <<>>
    /\ sret = <<>> /\ errs = <<>> /\ logch = <<>>

ReadRow ==
    /\ pc = "row"
    /\ parsed' = ForceRow(RowTokens(row.vals, row.glue, row.radius))
    /\ pc' = "rowdone"
    /\ UNCHANGED <<args, sargs, calc, fs, trace, cmds, struc, stage, time_total, sret,
                   errs, logch, ret, row>>

SpecRow == InitRow /\ [][ReadRow]_vars

\* C2: a row of three plain-decimal derivatives, a negative y and/or z glued to
\* the value before it, with or without the radius column, is read back as the
\* three printed values in order, and the force is their negation
C2_MergedRowRecovered ==
    (pc = "rowdone" /\ Len(row.vals) = 3) =>
        /\ parsed.ok
        /\ parsed.G = [j \in 1..3 |-> Neg(ValueOf(row.vals[j]))]

C2_Witness ==
    /\ pc = "rowdone" /\ Len(row.vals) = 3
    /\ row.glue[2] /\ row.glue[3] /\ row.radius
    /\ row.vals = <<[neg |-> TRUE, ip |-> 0, fp |-> 1], [neg |-> TRUE, ip |-> 0, fp |-> 1],
                    [neg |-> TRUE, ip |-> 1, fp |-> 0]>>
    /\ parsed.ok
    /\ parsed.G = <<<<1, 1>>, <<1, 1>>, <<1, 0>>>>

\* ---------------------------------------------------------------- the calculator
MaxSites == 2    \* largest number of atoms of a structure

FracWidth == 6   \* digits after the point of '{:12.6f}'
DefaultSteps == 1000
BadEnergy == 100000

None == "None"   \* Python's None where a string is expected
NoEnergy == <<0, -2>>   \* self.energy = None
Unset == [set |-> FALSE, val |-> <<>>]   \* an array attribute still None

Symbols == {"C", "Si"}

Zero == <<0, 0>>

\* an orthorhombic cell: the rows of struc.cell
Cell0 == <<<<<<2, 0>>, Zero, Zero>>, <<Zero, <<2, 0>>, Zero>>, <<Zero, Zero, <<3, 0>>>>>>

\* site i of the structures under test sits at (i/10, 0, 1/2)
Coord0(i) == <<Normalize(i, 1), Zero, <<5, 1>>>>

Strucs ==
    {[none |-> FALSE, sites |-> ss, frac_coords |-> [i \in 1..Len(ss) |-> Coord0(i)],
      cell |-> Cell0] : ss \in UNION {[1..n -> Symbols] : n \in 1..MaxSites}}

StrucNone == [none |-> TRUE, sites |-> <<>>, frac_coords |-> <<>>, cell |-> <<>>]

Dir == [kind |-> "dir", lines |-> <<>>]
File(lines) == [kind |-> "file", lines |-> lines]

\* GULP.__init__: the attributes of the new object
GULPInit(s, label, path, ff, opt, steps, exe, input, output, dump) ==
    [lattice |-> s.cell, frac_coords |-> s.frac_coords, sites |-> s.sites,
     structure |-> s, label |-> label, ff |-> ff, opt |-> opt, exe |-> exe,
     steps |-> steps, folder |-> path,
     input |-> path \o "/" \o label \o input,
     output |-> path \o "/" \o label \o output,
     dump |-> dump, iter |-> 0, energy |-> NoEnergy, stress |-> Unset,
     forces |-> Unset, positions |-> Unset, optimized |-> FALSE,
     cputime |-> Zero, error |-> FALSE]

\* GULP.__init__: os.makedirs(self.folder) when the folder is missing
MakeDirs(f, path) == IF path \in DOMAIN f THEN f ELSE (path :> Dir) @@ f

\* ---------------------------------------------------------------- write()
RECURSIVE Pow10(_)
Pow10(n) == IF n = 0 THEN 1 ELSE 10 * Pow10(n - 1)

RECURSIVE ZeroPad(_, _)
ZeroPad(ds, w) == IF Len(ds) >= w THEN ds ELSE ZeroPad(<<"0">> \o ds, w)

Abs(n) == IF n < 0 THEN -n ELSE n

\* '{:12.6f}'.format(v), without the padding blanks
FmtFloat(v) ==
    IF isnan(v) THEN <<"n", "a", "n">>
    ELSE LET m == Abs(v[1])
             k == v[2]
             q == IF k <= FracWidth THEN m * Pow10(FracWidth - k)
                  ELSE m \div Pow10(k - FracWidth)
             r == IF k <= FracWidth THEN 0 ELSE m % Pow10(k - FracWidth)
             half == IF k <= FracWidth THEN 1 ELSE 5 * Pow10(k - FracWidth - 1)
             up == r > half \/ (r = half /\ q % 2 = 1)
             scaled == IF up THEN q + 1 ELSE q
         IN  (IF v[1] < 0 THEN <<"-">> ELSE <<>>)
               \o FmtNat(scaled \div Pow10(FracWidth)) \o <<".">>
               \o ZeroPad(FmtNat(scaled % Pow10(FracWidth)), FracWidth)

\* '{:d}'.format(steps)
FmtInt(n) == (IF n < 0 THEN <<"-">> ELSE <<>>) \o FmtNat(Abs(n))

Blank == <<>>

\* the keyword line of the deck
FirstLine(opt) ==
    IF opt = "conv"
    THEN <<W("opti"), W("stress"), W(opt), W("conjugate"), W("nosymmetry")>>
    ELSE IF opt = "single"
         THEN <<W("grad"), W("conp"), W("stress")>>
         ELSE <<W("opti"), W("stress"), W(opt), W("conjugate"), W("nosymmetry")>>

\* a, b, c, alpha, beta, gamma of lattice.get_para(degree=True), for a cell
\* whose vectors lie along the axes, printed with '{:12.6f}' each
CellLine(m) ==
    <<FmtFloat(<<Abs(m[1][1][1]), m[1][1][2]>>), FmtFloat(<<Abs(m[2][2][1]), m[2][2][2]>>),
      FmtFloat(<<Abs(m[3][3][1]), m[3][3][2]>>),
      FmtFloat(<<90, 0>>), FmtFloat(<<90, 0>>), FmtFloat(<<90, 0>>)>>

\* for coord, site in zip(self.frac_coords, self.sites): one line each
FractionalLines(c) ==
    [i \in 1..Min(Len(c.frac_coords), Len(c.sites)) |->
        <<W(c.sites[i]), FmtFloat(c.frac_coords[i][1]), FmtFloat(c.frac_coords[i][2]),
          FmtFloat(c.frac_coords[i][3]), W("core")>>]

Range(f) == {f[i] : i \in DOMAIN f}

\* the orders list(set(self.sites)) can come in
SpeciesOrders(sites) ==
    {f \in [1..Cardinality(Range(sites)) -> Range(sites)] : Range(f) = Range(sites)}

\* for specie in species: one line each
SpeciesLines(sites, species) ==
    [i \in 1..Len(species) |-> <<W(species[i]), W("core"), W(species[i])>>]

MaxCycleAlways(c) == <<<<W("maxcycle"), FmtInt(c.steps)>>>>

\* if self.opt != "single": f.write('maxcycle {:d}\n'.format(self.steps))
MaxCycleLines(c) ==
    IF c.opt # "single" THEN <<<<W("maxcycle"), FmtInt(c.steps)>>>> ELSE <<>>

DumpLines(c) ==
    IF c.dump # None THEN <<<<W("output"), W("cif"), W(c.dump)>>>> ELSE <<>>

\* the lines write() puts into self.input
Deck(c, species) ==
    <<FirstLine(c.opt), Blank, <<W("cell")>>, CellLine(c.lattice), Blank,
      <<W("fractional")>>>>
      \o FractionalLines(c)
      \o <<Blank, <<W("Species")>>>>
      \o SpeciesLines(c.sites, species)
      \o <<Blank, <<W("library"), W(c.ff)>>, <<W("ewald"), <<"1", "0", ".", "0">>>>>>
      \o MaxCycleLines(c)
      \o DumpLines(c)

RunNextAlwaysClean(step, clean) ==
    CASE step = "write" -> "execute"
      [] step = "execute" -> "read"
      [] step = "read" -> "clean"
      [] step = "clean" -> "ran"

\* run(): the step that follows each step
RunNext(step, clean) ==
    CASE step = "write" -> "execute"
      [] step = "execute" -> "read"
      [] step = "read" -> IF clean THEN "clean" ELSE "ran"
      [] step = "clean" -> "ran"

Write ==
    /\ pc = "write"
    /\ \E species \in SpeciesOrders(calc.sites) :
          fs' = (calc.input :> File(Deck(calc, species))) @@ fs
    /\ trace' = Append(trace, "write")
    /\ pc' = RunNext("write", sargs.clean)
    /\ UNCHANGED <<args, sargs, calc, cmds, struc, stage, time_total, sret, errs, logch,
                   ret, row, parsed>>

\* ---------------------------------------------------------------- write() alone
Opts == {"conp", "conv", "single", "prop"}

InitWrite ==
    /\ \E s \in Strucs, opt \in Opts, steps \in {DefaultSteps, 50},
          dump \in {None, "opt.cif"} :
          calc = GULPInit(s, "_", "tmp", "reax", opt, steps, "gulp", "gulp.in",
                          "gulp.log", dump)
    /\ fs = MakeDirs(<<>>, "tmp")
    /\ sargs = [clean |-> TRUE]
    /\ pc = "write"
    /\ trace = <<>>
    /\ args = <<>> /\ cmds = <<>> /\ struc = <<>> /\ stage = 0 /\ time_total = Zero
    /\ ret = <<>> /\ sret = <<>> /\ errs = <<>> /\ logch = <<>>
    /\ row = <<>> /\ parsed = <<>>

SpecWrite == InitWrite /\ [][Write]_vars

IsAtomLine(l) == Len(l) = 5 /\ l[5] = W("core")
IsSpeciesLine(l) == Len(l) = 3 /\ l[2] = W("core")
IsMaxCycle(l) == Len(l) >= 1 /\ l[1] = W("maxcycle")

Written == calc.input \in DOMAIN fs /\ fs[calc.input].kind = "file"

\* C5: opt decides the first line and the cycle limit of the deck ('single':
\* 'grad conp stress' and no maxcycle line; any other opt: 'opti stress <opt>
\* conjugate nosymmetry' and one 'maxcycle <steps>' line); the deck has one atom
\* line per site, in site order, and one Species line per distinct symbol
C5_DeckFollowsOpt ==
    Written =>
        LET deck == fs[calc.input].lines
            atoms == SelectSeq(deck, IsAtomLine)
            species == SelectSeq(deck, IsSpeciesLine)
            cycles == SelectSeq(deck, IsMaxCycle)
        IN  /\ calc.opt = "single" =>
                /\ deck[1] = <<W("grad"), W("conp"), W("stress")>>
                /\ cycles = <<>>
            /\ calc.opt # "single" =>
                /\ deck[1] = <<W("opti"), W("stress"), W(calc.opt), W("conjugate"),
                               W("nosymmetry")>>
                /\ Len(cycles) = 1 /\ Len(cycles[1]) = 2
                /\ DigitsVal(cycles[1][2]) = calc.steps
            /\ Len(atoms) = Len(calc.sites)
            /\ \A i \in 1..Len(atoms) :
                  /\ atoms[i][1] = W(calc.sites[i])
                  /\ \A j \in 1..3 :
                        ParseFloat(atoms[i][j + 1]).val = calc.frac_coords[i][j]
            /\ \A x \in Range(calc.sites) :
                  Cardinality({i \in 1..Len(species) : species[i][1] = W(x)}) = 1
            /\ \A i \in 1..Len(species) :
                  \E x \in Range(calc.sites) : species[i] = <<W(x), W("core"), W(x)>>

C5_Witness ==
    /\ Written
    /\ calc.opt = "single"
    /\ calc.sites = <<"Si", "C">>
    /\ Len(SelectSeq(fs[calc.input].lines, IsSpeciesLine)) = 2

\* ---------------------------------------------------------------- read()
Has(line, m) == \E i \in 1..Len(line) : line[i] = W(m)

DASHES == "------------"

\* re.match(r'\s*Total lattice energy\s*=\s*(\S+)\s*eV', line); group(1) is line[3]
EnergyMatch(line) ==
    /\ Len(line) >= 4
    /\ line[1] = W("Total lattice energy")
    /\ line[2] = W("=")
    /\ line[4] = W("eV")

\* int(token)
ParseInt(tok) ==
    LET neg == Len(tok) > 0 /\ tok[1] = "-"
        body == IF neg THEN Tail(tok) ELSE tok
    IN  IF Len(body) >= 1 /\ \A i \in 1..Len(body) : IsDigit(body[i])
        THEN [ok |-> TRUE, val |-> (IF neg THEN -1 ELSE 1) * DigitsVal(body)]
        ELSE [ok |-> FALSE, val |-> 0]

Raise(c) == [c |-> c, raised |-> TRUE]
Go(c) == [c |-> c, raised |-> FALSE]

\* the stress table: rows i+3 .. i+5, fields 1 and 3 of each
ReadStress(c, lines, i) ==
    LET good(j) == /\ i + j + 3 <= Len(lines)
                   /\ Len(lines[i + j + 3]) >= 4
                   /\ ParseFloat(lines[i + j + 3][2]).ok
                   /\ ParseFloat(lines[i + j + 3][4]).ok
    IN  IF \A j \in 0..2 : good(j)
        THEN Go([c EXCEPT !.stress =
                    [set |-> TRUE,
                     val |-> [n \in 1..6 |->
                                IF n <= 3 THEN ParseFloat(lines[i + n + 2][2]).val
                                ELSE ParseFloat(lines[i + n - 1][4]).val]]])
        ELSE Raise(c)

\* the rows of the derivatives table from line s up to the line of dashes
RECURSIVE ForceRows(_, _)
ForceRows(lines, s) ==
    IF s > Len(lines) THEN [ok |-> FALSE, rows |-> <<>>]
    ELSE IF Has(lines[s], DASHES) THEN [ok |-> TRUE, rows |-> <<>>]
    ELSE LET f == ForceRow(lines[s])
             rest == ForceRows(lines, s + 1)
         IN  IF f.ok /\ rest.ok THEN [ok |-> TRUE, rows |-> <<f.G>> \o rest.rows]
             ELSE [ok |-> FALSE, rows |-> <<>>]

ReadForces(c, lines, i) ==
    LET r == ForceRows(lines, i + 6)
    IN  IF r.ok THEN Go([c EXCEPT !.forces = [set |-> TRUE, val |-> r.rows]])
        ELSE Raise(c)

\* one row of the coordinates table: xyz = split()[3:6], floats, then split()[1]
CoordRow(toks) ==
    LET xyz == Columns3to6(toks)
    IN  IF (\A j \in 1..Len(xyz) : ParseFloat(xyz[j]).ok) /\ Len(toks) >= 2
        THEN [ok |-> TRUE, XYZ |-> [j \in 1..Len(xyz) |-> ParseFloat(xyz[j]).val]]
        ELSE [ok |-> FALSE, XYZ |-> <<>>]

\* the rows of the coordinates table from line s up to the line of dashes
RECURSIVE CoordRows(_, _)
CoordRows(lines, s) ==
    IF s > Len(lines) THEN [ok |-> FALSE, rows |-> <<>>]
    ELSE IF Has(lines[s], DASHES) THEN [ok |-> TRUE, rows |-> <<>>]
    ELSE LET f == CoordRow(lines[s])
             rest == CoordRows(lines, s + 1)
         IN  IF f.ok /\ rest.ok THEN [ok |-> TRUE, rows |-> <<f.XYZ>> \o rest.rows]
             ELSE [ok |-> FALSE, rows |-> <<>>]

ReadCoords(c, lines, i) ==
    LET r == CoordRows(lines, i + 6)
    IN  IF r.ok THEN Go([c EXCEPT !.frac_coords = r.rows]) ELSE Raise(c)

\* the lattice vectors: rows i+2 .. i+4, fields 0 .. 2 of each
ReadLattice(c, lines, i) ==
    LET good(j) == /\ j <= Len(lines)
                   /\ Len(lines[j]) >= 3
                   /\ \A k \in 1..3 : ParseFloat(lines[j][k]).ok
    IN  IF \A j \in (i + 2)..(i + 4) : good(j)
        THEN Go([c EXCEPT !.lattice =
                    [j \in 1..3 |-> [k \in 1..3 |-> ParseFloat(lines[i + 1 + j][k]).val]]])
        ELSE Raise(c)

\* the body of the loop over the lines, for line i
ScanLine(c, lines, i) ==
    LET line == lines[i]
    IN  IF EnergyMatch(line)
        THEN IF ParseFloat(line[3]).ok
             THEN Go([c EXCEPT !.energy = ParseFloat(line[3]).val])
             ELSE Raise(c)
        ELSE IF Has(line, "Job Finished") THEN Go([c EXCEPT !.optimized = TRUE])
        ELSE IF Has(line, "Total CPU time")
        THEN IF ParseFloat(line[Len(line)]).ok
             THEN Go([c EXCEPT !.cputime = ParseFloat(line[Len(line)]).val])
             ELSE Raise(c)
        ELSE IF Has(line, "Final stress tensor components") THEN ReadStress(c, lines, i)
        ELSE IF Has(line, "Final internal derivatives") THEN ReadForces(c, lines, i)
        ELSE IF Has(line, "Cycle:")
        THEN IF Len(line) >= 2 /\ ParseInt(line[2]).ok
             THEN Go([c EXCEPT !.iter = ParseInt(line[2]).val])
             ELSE Raise(c)
        ELSE IF Has(line, "Final fractional coordinates of atoms")
        THEN ReadCoords(c, lines, i)
        ELSE IF Has(line, "Final Cartesian lattice vectors") THEN ReadLattice(c, lines, i)
        ELSE Go(c)

RECURSIVE ScanLines(_, _, _)
ScanLines(c, lines, i) ==
    IF i > Len(lines) THEN Go(c)
    ELSE LET r == ScanLine(c, lines, i)
         IN  IF r.raised THEN r ELSE ScanLines(r.c, lines, i + 1)

Failed(c) == [c EXCEPT !.error = TRUE, !.energy = <<BadEnergy, 0>>]

\* read(): np.isnan(None) raises like any failure of the scan
ReadLog(c, lines) ==
    LET r == ScanLines(c, lines, 1)
    IN  IF r.raised \/ r.c.energy = NoEnergy THEN Failed(r.c)
        ELSE IF isnan(r.c.energy) THEN Failed(r.c)
        ELSE r.c

Read ==
    /\ pc = "read"
    /\ IF calc.output \in DOMAIN fs /\ fs[calc.output].kind = "file"
       THEN /\ calc' = ReadLog(calc, fs[calc.output].lines)
            /\ errs' = Append(errs, calc'.error)
            /\ pc' = RunNext("read", sargs.clean)
       ELSE /\ pc' = "raised"
            /\ UNCHANGED <<calc, errs>>
    /\ trace' = Append(trace, "read")
    /\ UNCHANGED <<args, sargs, fs, cmds, struc, stage, time_total, sret, logch, ret,
                   row, parsed>>

\* ---------------------------------------------------------------- the logs
LogAtoms == 1    \* rows of the tables of atoms in a log

Stars == W("********")
P(neg, ip, fp) == [neg |-> neg, ip |-> ip, fp |-> fp]
Num(neg, ip, fp) == Text(P(neg, ip, fp))

TableKinds == {"absent", "good", "nonnum", "short"}
EnergyKinds == {"none", "kj", "ok", "nan", "bad"}

EnergyLines(kind) ==
    LET kj == <<W("Total lattice energy"), W("="), Num(TRUE, 1, 0), W("kJ/(mole"),
                W("unit"), W("cells)")>>
        ev(tok) == <<W("Total lattice energy"), W("="), tok, W("eV")>>
    IN  CASE kind = "none" -> <<>>
          [] kind = "kj" -> <<kj>>
          [] kind = "ok" -> <<ev(Num(TRUE, 0, 1)), kj>>
          [] kind = "nan" -> <<ev(<<"n", "a", "n">>), kj>>
          [] kind = "bad" -> <<ev(Stars), kj>>

TableHead(title) ==
    <<<<W(title), W(":")>>, Blank, <<W(DASHES)>>,
      <<W("No."), W("Atomic"), W("x"), W("y"), W("z"), W("Radius")>>,
      <<W("Label")>>, <<W(DASHES)>>>>

CoordsTable(kind) ==
    LET r(i) == <<FmtNat(i), W("C"), W("c")>>
                  \o (CASE kind = "good" ->
                             <<Num(FALSE, 0, 1), Num(FALSE, 0, 0), Num(FALSE, 0, 1),
                               Num(FALSE, 0, 0)>>
                        [] kind = "nonnum" ->
                             <<Stars, Num(FALSE, 0, 0), Num(FALSE, 0, 1), Num(FALSE, 0, 0)>>
                        [] kind = "short" -> <<Num(FALSE, 0, 1), Num(FALSE, 0, 0)>>)
    IN  IF kind = "absent" THEN <<>>
        ELSE TableHead("Final fractional coordinates of atoms")
               \o [i \in 1..LogAtoms |-> r(i)] \o <<<<W(DASHES)>>>>

DerivsTable(kind) ==
    LET r(i) == CASE kind = "good" ->
                       RowTokens(<<P(FALSE, 0, 1), P(TRUE, 0, 1), P(TRUE, 1, 0)>>,
                                 <<FALSE, TRUE, FALSE>>, TRUE)
                  [] kind = "nonnum" ->
                       <<FmtNat(i), W("C"), W("c"), Stars, Num(FALSE, 0, 0),
                         Num(FALSE, 0, 1), Num(FALSE, 0, 0)>>
                  [] kind = "short" ->
                       RowTokens(<<P(FALSE, 0, 1), P(TRUE, 0, 1)>>,
                                 <<FALSE, TRUE, FALSE>>, FALSE)
    IN  IF kind = "absent" THEN <<>>
        ELSE TableHead("Final internal derivatives")
               \o [i \in 1..LogAtoms |-> r(i)] \o <<<<W(DASHES)>>>>

StressTable(kind) ==
    LET r(a, b) == CASE kind = "good" -> <<W(a), Num(TRUE, 0, 1), W(b), Num(FALSE, 0, 0)>>
                     [] kind = "nonnum" -> <<W(a), Num(TRUE, 0, 1), W(b), Stars>>
                     [] kind = "short" -> <<W(a), Num(TRUE, 0, 1)>>
    IN  IF kind = "absent" THEN <<>>
        ELSE <<<<W("Final stress tensor components"), W("(kbar):")>>, Blank,
               <<W(DASHES)>>, r("xx", "yz"), r("yy", "xz"), r("zz", "xy"), <<W(DASHES)>>>>

LatticeTable(kind) ==
    LET z == Num(FALSE, 0, 0)
        a == Num(FALSE, 1, 1)
        r(x, y, w) == CASE kind = "good" -> <<x, y, w>>
                        [] kind = "nonnum" -> <<x, Stars, w>>
                        [] kind = "short" -> <<x, y>>
    IN  IF kind = "absent" THEN <<>>
        ELSE <<<<W("Final Cartesian lattice vectors"), W("(Angstroms)"), W(":")>>, Blank,
               r(a, z, z), r(z, a, z), r(z, z, a)>>

Tables == <<"coords", "lattice", "derivs", "stress">>

TableLines(ch, t) ==
    CASE t = "coords" -> CoordsTable(ch.coords)
      [] t = "lattice" -> LatticeTable(ch.lattice)
      [] t = "derivs" -> DerivsTable(ch.derivs)
      [] t = "stress" -> StressTable(ch.stress)

Preamble(ch) ==
    EnergyLines(ch.energy) \o <<<<W("Cycle:"), FmtNat(0), W("Energy:"), Num(TRUE, 0, 1)>>>>

\* the log of a complete run of the program, in the order the program prints it
FullLog(ch) ==
    Preamble(ch)
      \o CoordsTable(ch.coords) \o LatticeTable(ch.lattice)
      \o DerivsTable(ch.derivs) \o StressTable(ch.stress)
      \o <<<<W("Total CPU time"), Num(FALSE, 0, 1)>>, <<W("Job Finished"), W("at")>>>>

\* the log on disk: the first ch.cut lines of the complete log
Log(ch) == SubSeq(FullLog(ch), 1, Min(ch.cut, Len(FullLog(ch))))

RECURSIVE TableStart(_, _)
\* the number of lines before table number n
TableStart(ch, n) ==
    IF n = 1 THEN Len(Preamble(ch))
    ELSE TableStart(ch, n - 1) + Len(TableLines(ch, Tables[n - 1]))

Kind(ch, n) ==
    CASE n = 1 -> ch.coords [] n = 2 -> ch.lattice [] n = 3 -> ch.derivs [] n = 4 -> ch.stress

\* the title line of table n is in the log
Begun(ch, n) == Kind(ch, n) # "absent" /\ ch.cut > TableStart(ch, n)

\* the lines of table n up to its last row of numbers (the tables of atoms and
\* the stress table end with one more line, a rule of dashes)
DataLines(ch, n) ==
    Len(TableLines(ch, Tables[n])) - (IF n = 2 THEN 0 ELSE 1)

\* the log ends inside table n, before its last row of numbers is complete
CutShort(ch, n) == Begun(ch, n) /\ ch.cut < TableStart(ch, n) + DataLines(ch, n)

\* the log ends before the last line read() needs of table n: the closing rule
\* of a table of atoms, the last row of the stress table and the lattice vectors
CutNoticed(ch, n) ==
    Begun(ch, n) /\ ch.cut < TableStart(ch, n) + DataLines(ch, n)
                                + (IF n \in {1, 3} THEN 1 ELSE 0)

MaxLog == 40     \* no log is longer

\* every log, described once: what the cut removes is described as absent
LogChoices ==
    {ch \in [energy : EnergyKinds, coords : TableKinds, lattice : TableKinds,
             derivs : TableKinds, stress : TableKinds, cut : 0..MaxLog] :
        /\ ch.cut <= Len(FullLog(ch))
        /\ \A n \in 1..4 : Kind(ch, n) # "absent" => Begun(ch, n)
        /\ ch.cut = 0 => ch.energy = "none"}

\* ---------------------------------------------------------------- read() alone
\* the structure the logs are about: LogAtoms atoms of carbon
Struc0 ==
    [none |-> FALSE, sites |-> [i \in 1..LogAtoms |-> "C"],
     frac_coords |-> [i \in 1..LogAtoms |-> Coord0(i)], cell |-> Cell0]

\* a calculator whose deck is written and whose program has run, before read()
InitRead ==
    /\ logch \in LogChoices
    /\ \E opt \in {"conp", "single"} :
          calc = GULPInit(Struc0, "_", "tmp", "reax", opt, DefaultSteps, "gulp",
                          "gulp.in", "gulp.log", None)
    /\ fs = (calc.output :> File(Log(logch)))
              @@ (calc.input :> File(Deck(calc, <<"C">>))) @@ MakeDirs(<<>>, "tmp")
    /\ sargs = [clean |-> TRUE]
    /\ pc = "read"
    /\ trace = <<"write", "execute">>
    /\ cmds = <<calc.exe \o "<" \o calc.input \o ">" \o calc.output>>
    /\ args = <<>> /\ struc = <<>> /\ stage = 0 /\ time_total = Zero
    /\ ret = <<>> /\ sret = <<>> /\ errs = <<>>
    /\ row = <<>> /\ parsed = <<>>

SpecRead == InitRead /\ [][Read]_vars

HasRead == pc \in {"clean", "ran"}

\* the log holds a line 'Total lattice energy = <number or nan> eV'
EnergyParsable(ch) == ch.energy \in {"ok", "nan"} /\ ch.cut >= 1

\* a table of the log ends early or holds a field that is no number
TableDamaged(ch) ==
    \E n \in 1..4 : Begun(ch, n) /\ (Kind(ch, n) \in {"nonnum", "short"} \/ CutShort(ch, n))

\* C6: read() returns, and afterwards error implies energy = 100000; a log
\* without a parsable energy line, with a NaN energy, or with a truncated or
\* non-numeric table ends in error = True; error stays False only when the
\* energy was parsed to a number and nothing failed
C6_ReadFlagsEveryFailure ==
    HasRead =>
        /\ calc.error => calc.energy = <<BadEnergy, 0>>
        /\ (~EnergyParsable(logch) \/ logch.energy = "nan" \/ TableDamaged(logch))
              => calc.error
        /\ ~calc.error => (EnergyParsable(logch) /\ ~isnan(calc.energy))

\* what does hold: the same with the rows of the coordinates table left out of
\* the tables whose short rows are noticed
TableDamagedNoticed(ch) ==
    \E n \in 1..4 :
        Begun(ch, n) /\ (Kind(ch, n) = "nonnum" \/ CutNoticed(ch, n)
                           \/ (Kind(ch, n) = "short" /\ n # 1))

ReadFlagsNoticedFailures ==
    HasRead =>
        /\ calc.error => calc.energy = <<BadEnergy, 0>>
        /\ calc.error <=> (~EnergyParsable(logch) \/ logch.energy = "nan"
                              \/ TableDamagedNoticed(logch))
        /\ ~calc.error => calc.energy = <<-1, 1>>

\* ---------------------------------------------------------------- run() and the drivers
MaxStages == 2   \* longest list of optimisation stages

RECURSIVE RemoveAll(_, _)
\* os.remove of the paths of ps in turn, up to the first one that is missing
RemoveAll(f, ps) ==
    IF ps = <<>> THEN [fs |-> f, ok |-> TRUE]
    ELSE IF Head(ps) \in DOMAIN f /\ f[Head(ps)].kind = "file"
         THEN RemoveAll([q \in DOMAIN f \ {Head(ps)} |-> f[q]], Tail(ps))
         ELSE [fs |-> f, ok |-> FALSE]

\* clean(): the files it removes, in order
CleanPaths(c) == <<c.input, c.output>> \o (IF c.dump # None THEN <<c.dump>> ELSE <<>>)

\* execute(): cmd = self.exe + '<' + self.input + '>' + self.output
Command(c) == c.exe \o "<" \o c.input \o ">" \o c.output

\* the logs the stages of a driver are tried on
StageLogChoices ==
    {[energy |-> "none", coords |-> "absent", lattice |-> "absent", derivs |-> "absent",
      stress |-> "absent", cut |-> 0]}
    \cup
    {[energy |-> e, coords |-> a, lattice |-> a, derivs |-> b, stress |-> b,
      cut |-> Len(FullLog([energy |-> e, coords |-> a, lattice |-> a, derivs |-> b,
                           stress |-> b, cut |-> 0]))] :
        e \in {"none", "ok", "nan"}, a \in TableKinds, b \in {"absent", "good"}}

\* os.system(cmd): the shell creates the output file, the program fills it and
\* may write the dump file
Execute ==
    /\ pc = "execute"
    /\ \E ch \in StageLogChoices, dumped \in BOOLEAN :
          /\ dumped => calc.dump # None
          /\ logch' = ch
          /\ fs' = (calc.output :> File(Log(ch)))
                     @@ (IF dumped THEN (calc.dump :> File(<<>>)) ELSE <<>>) @@ fs
    /\ cmds' = Append(cmds, Command(calc))
    /\ trace' = Append(trace, "execute")
    /\ pc' = RunNext("execute", sargs.clean)
    /\ UNCHANGED <<args, sargs, calc, struc, stage, time_total, sret, errs, ret, row,
                   parsed>>

Clean ==
    /\ pc = "clean"
    /\ LET r == RemoveAll(fs, CleanPaths(calc))
       IN  /\ fs' = r.fs
           /\ pc' = IF r.ok THEN RunNext("clean", sargs.clean) ELSE "raised"
    /\ trace' = Append(trace, "clean")
    /\ UNCHANGED <<args, sargs, calc, cmds, struc, stage, time_total, sret, errs, logch,
                   ret, row, parsed>>

\* a + b on floats
Add(a, b) ==
    LET k == IF a[2] > b[2] THEN a[2] ELSE b[2]
    IN  Normalize(a[1] * Pow10(k - a[2]) + b[1] * Pow10(k - b[2]), k)

\* calc = GULP(struc, label=label, path=path, ff=ff, opt=opt)
SingleOptimizeCalc(s, ff, opt, exe, path, label) ==
    GULPInit(s, label, path, ff, opt, DefaultSteps, "gulp", "gulp.in", "gulp.log", None)

\* to_pyxtal(): the structure of the sites, coordinates and lattice of the
\* calculator; Structure() refuses coordinates that do not match the sites
ToPyxtalOk(c) ==
    /\ Len(c.frac_coords) = Len(c.sites)
    /\ \A i \in 1..Len(c.frac_coords) : Len(c.frac_coords[i]) = 3

ToPyxtal(c) ==
    [none |-> FALSE, sites |-> c.sites, frac_coords |-> c.frac_coords, cell |-> c.lattice]

ErrorTuple == [structure |-> StrucNone, energy |-> <<BadEnergy, 0>>, time |-> Zero,
               error |-> TRUE]

SingleOptimizeResultUnchecked(c) ==
    [structure |-> ToPyxtal(c), energy |-> c.energy, time |-> c.cputime, error |-> FALSE]

\* what single_optimize() returns after calc.run()
SingleOptimizeResult(c) ==
    IF c.error THEN ErrorTuple
    ELSE [structure |-> ToPyxtal(c), energy |-> c.energy, time |-> c.cputime,
          error |-> c.error]

Modes == {"run", "single_optimize", "optimize"}

Init ==
    /\ args \in {a \in [mode : Modes, struc : {Struc0}, ff : {"reax"},
                        opt : {"conp", "single"},
                        optimizations : UNION {[1..n -> {"conp", "single"}] : n \in 0..MaxStages},
                        exe : {"gulp", "gulp-5.2"}, path : {"tmp", "work"},
                        label : {"_", "a_"}, clean : BOOLEAN, dump : {None, "opt.cif"}] :
                  /\ a.mode # "run" => a.dump = None
                  /\ a.mode # "optimize" => a.optimizations = <<>>
                  /\ a.mode = "optimize" => a.opt = "conp"}
    /\ pc = "call"
    /\ sargs = [clean |-> TRUE]
    /\ calc = <<>> /\ fs = <<>> /\ trace = <<>> /\ cmds = <<>>
    /\ struc = args.struc
    /\ stage = 0 /\ time_total = Zero /\ sret = <<>> /\ errs = <<>> /\ logch = <<>>
    /\ ret = <<>> /\ row = <<>> /\ parsed = <<>>

\* calc = GULP(struc, opt=..., ...); calc.run(clean)
RunCall ==
    /\ pc = "call" /\ args.mode = "run"
    /\ calc' = GULPInit(struc, args.label, args.path, args.ff, args.opt, DefaultSteps,
                        args.exe, "gulp.in", "gulp.log", args.dump)
    /\ fs' = MakeDirs(fs, args.path)
    /\ sargs' = [clean |-> args.clean]
    /\ trace' = <<>>
    /\ pc' = "write"
    /\ UNCHANGED <<args, cmds, struc, stage, time_total, sret, errs, logch, ret, row,
                   parsed>>

RunReturn ==
    /\ pc = "ran" /\ args.mode = "run"
    /\ pc' = "done"
    /\ UNCHANGED <<args, sargs, calc, fs, trace, cmds, struc, stage, time_total, sret,
                   errs, logch, ret, row, parsed>>

\* single_optimize(struc, ff, opt, exe, path, label, clean) up to calc.run(clean=clean)
SingleOptimizeCall ==
    /\ pc = "call" /\ args.mode = "single_optimize"
    /\ calc' = SingleOptimizeCalc(struc, args.ff, args.opt, args.exe, args.path,
                                  args.label)
    /\ fs' = MakeDirs(fs, args.path)
    /\ sargs' = [clean |-> args.clean]
    /\ trace' = <<>>
    /\ pc' = "write"
    /\ UNCHANGED <<args, cmds, struc, stage, time_total, sret, errs, logch, ret, row,
                   parsed>>

\* single_optimize() after calc.run(): the tuple it returns
SingleOptimizeReturn ==
    /\ pc = "ran" /\ args.mode \in {"single_optimize", "optimize"}
    /\ IF calc.error \/ ToPyxtalOk(calc)
       THEN /\ sret' = SingleOptimizeResult(calc)
            /\ IF args.mode = "single_optimize"
               THEN ret' = sret' /\ pc' = "done"
               ELSE ret' = ret /\ pc' = "stage_ret"
       ELSE pc' = "raised" /\ UNCHANGED <<sret, ret>>
    /\ UNCHANGED <<args, sargs, calc, fs, trace, cmds, struc, stage, time_total, errs,
                   logch, row, parsed>>

\* optimize(): time_total = 0, then the loop
OptimizeCall ==
    /\ pc = "call" /\ args.mode = "optimize"
    /\ time_total' = Zero
    /\ stage' = 1
    /\ pc' = "loop"
    /\ UNCHANGED <<args, sargs, calc, fs, trace, cmds, struc, sret, errs, logch, ret,
                   row, parsed>>

\* optimize(): the next stage, single_optimize(struc, ff, opt, exe, path, label),
\* or the return after the last one
OptimizeLoop ==
    /\ pc = "loop"
    /\ IF stage <= Len(args.optimizations)
       THEN /\ calc' = SingleOptimizeCalc(struc, args.ff, args.optimizations[stage],
                                          args.exe, args.path, args.label)
            /\ fs' = MakeDirs(fs, args.path)
            /\ sargs' = [clean |-> TRUE]
            /\ trace' = <<>>
            /\ pc' = "write"
            /\ ret' = ret
       ELSE /\ IF args.optimizations = <<>>
               THEN pc' = "raised" /\ ret' = ret
               ELSE /\ pc' = "done"
                    /\ ret' = [structure |-> struc, energy |-> sret.energy,
                               time |-> time_total, error |-> FALSE]
            /\ UNCHANGED <<calc, fs, sargs, trace>>
    /\ UNCHANGED <<args, cmds, struc, stage, time_total, sret, errs, logch, row, parsed>>

\* optimize(): struc, energy, time, error = single_optimize(...); time_total +=
\* time; if error: return None, 100000, 0, True
OptimizeStageReturn ==
    /\ pc = "stage_ret"
    /\ struc' = sret.structure
    /\ time_total' = Add(time_total, sret.time)
    /\ IF sret.error
       THEN ret' = ErrorTuple /\ pc' = "done" /\ stage' = stage
       ELSE ret' = ret /\ pc' = "loop" /\ stage' = stage + 1
    /\ UNCHANGED <<args, sargs, calc, fs, trace, cmds, sret, errs, logch, row, parsed>>

Next ==
    \/ RunCall \/ SingleOptimizeCall \/ OptimizeCall \/ OptimizeLoop
    \/ Write \/ Execute \/ Read \/ Clean
    \/ RunReturn \/ SingleOptimizeReturn \/ OptimizeStageReturn

Spec == Init /\ [][Next]_vars

\* ---------------------------------------------------------------- the claims on run() and the drivers
RunSteps == <<"write", "execute", "read", "clean">>

\* C1: run() performs write, execute, read, clean in this order, each at most
\* once: the program is started once per run and only after the deck is
\* written, the log is read only after the program returned, and clean() comes
\* only after read() and only when clean is True
C1_RunOrder ==
    /\ \E n \in 0..4 : trace = SubSeq(RunSteps, 1, n)
    /\ Len(trace) = 4 => sargs.clean
    /\ pc = "ran" => trace = SubSeq(RunSteps, 1, IF sargs.clean THEN 4 ELSE 3)
    /\ pc = "execute" => (calc.input \in DOMAIN fs /\ trace = <<"write">>)
    /\ pc = "read" => (calc.output \in DOMAIN fs /\ cmds[Len(cmds)] = Command(calc))
    /\ Len(cmds) = Len(errs) + (IF pc = "read" THEN 1 ELSE 0)

C1_Witness ==
    /\ pc = "ran" /\ args.mode = "run" /\ ~sargs.clean
    /\ trace = <<"write", "execute", "read">>
    /\ Len(cmds) = 1

Driver == args.mode \in {"single_optimize", "optimize"}

\* C3: the tuple optimize() and single_optimize() return has error = True
\* exactly when the structure is None, error = True comes with energy 100000
\* and time 0, and a stage that failed is never reported with error = False
C3_ErrorTuple ==
    (pc = "done" /\ Driver) =>
        /\ ret.error <=> ret.structure.none
        /\ ret.error => (ret.energy = <<BadEnergy, 0>> /\ ret.time = Zero)
        /\ (\E i \in 1..Len(errs) : errs[i]) => ret.error

C3_Witness ==
    /\ pc = "done" /\ args.mode = "optimize"
    /\ Len(errs) = 2 /\ ~errs[1] /\ errs[2]
    /\ time_total # Zero
    /\ ret = ErrorTuple

\* C4: every stage of optimize() and single_optimize() starts the program named
\* by exe on the files of the given path and label, and the files of the stages
\* are removed exactly when the clean argument is True
C4_ArgumentsHonoured ==
    Driver =>
        LET input == args.path \o "/" \o args.label \o "gulp.in"
            output == args.path \o "/" \o args.label \o "gulp.log"
        IN  /\ \A i \in 1..Len(cmds) : cmds[i] = args.exe \o "<" \o input \o ">" \o output
            /\ pc = "done" => /\ input \in DOMAIN fs <=> ~args.clean
                              /\ output \in DOMAIN fs <=> ~args.clean
====
